---- MODULE Spec2Model ----
(***************************************************************************)
(* The persistence and query layer of truck-care (truck_care/db.py): the   *)
(* four SQLite tables, the Database methods that write them, the list      *)
(* methods and the current_tires resolver.                                 *)
(*                                                                         *)
(* Text that the code inspects character by character (plates, record      *)
(* types, dates) is a tuple of one-character strings; text that is only    *)
(* compared for equality (vehicle types, position labels) is a string.     *)
(***************************************************************************)
EXTENDS Integers, Sequences, FiniteSets, TLC

VARIABLES
    tractors,             \* rows of table tractors
    trailers,             \* rows of table trailers
    tire_events,          \* rows of table tire_events
    maintenance_records,  \* rows of table maintenance_records
    sqlite_sequence,      \* AUTOINCREMENT high-water mark of each table
    last,                 \* the last call: method, outcome, returned id
    visualizer,           \* the TireVisualizer widget of the window, None before there is one
    output_dir            \* the files of the export directory, None while it does not exist

vars ==
    <<tractors, trailers, tire_events, maintenance_records, sqlite_sequence, last,
      visualizer, output_dir>>

tables == <<tractors, trailers, tire_events, maintenance_records, sqlite_sequence>>

\* what no method of Database reads or writes
outside == <<visualizer, output_dir>>

-----------------------------------------------------------------------------
(* constants.py *)

TRACTOR_TIRE_POSITIONS == <<"F1", "F2", "F3", "F4", "F5", "F6", "F7", "F8">>

TRAILER_TIRE_POSITIONS ==
    <<"R1", "R2", "R3", "R4", "R5", "R6", "R7", "R8", "R9", "R10", "R11", "R12">>

VEHICLE_TYPE_TRACTOR == "tractor"

VEHICLE_TYPE_TRAILER == "trailer"

-----------------------------------------------------------------------------
(* Bounds and the inputs the calls are tried with. *)

\* successful INSERTs over the whole run (all four tables together)
MaxRows == 3

\* successful INSERTs into tire_events over the whole run
MaxTireEvents == 2

D_2025_01_01 == <<"2", "0", "2", "5", "-", "0", "1", "-", "0", "1">>

D_2025_01_02 == <<"2", "0", "2", "5", "-", "0", "1", "-", "0", "2">>

\* February 30th: well formed, not a calendar date
D_2025_02_30 == <<"2", "0", "2", "5", "-", "0", "2", "-", "3", "0">>

\* January 1st 2025 in the basic form, without hyphens
D_20250101 == <<"2", "0", "2", "5", "0", "1", "0", "1">>

StrArg(text) == [kind |-> "str", value |-> text]

DateArg(year, month, day) == [kind |-> "date", year |-> year, month |-> month, day |-> day]

\* inputs of every specification
VehicleTypeInputs == { "tractor", "trailer" }

RowIdInputs == { 1, 2 }

MileageInputs == { -1, 0 }

NoteInputs == { <<>> }

RecordTypeInputs == { <<"o", "i", "l">>, <<" ">> }

\* inputs of Spec, where all four tables are written
PlateInputs == { <<"A">>, <<"B">>, <<" ">> }

VehicleIdInputs == { 1 }

PositionInputs == { "F1", "R12", "X1" }

DateInputs == { StrArg(D_2025_01_01), StrArg(D_2025_02_30) }

\* inputs of SpecTires, where only tire_events is written
TireVehicleIdInputs == { 1, 2 }

TirePositionInputs == { "F1", "F8", "R12", "X1" }

TireDateInputs ==
    { StrArg(D_2025_01_01), StrArg(D_2025_01_02), StrArg(D_2025_02_30), DateArg(2025, 1, 2) }

\* inputs of SpecDates, where tire events and maintenance records are written
\* with dates in every form
FormPositionInputs == { "F1" }

FormDateInputs ==
    { StrArg(D_2025_01_01), StrArg(D_20250101), StrArg(D_2025_02_30), DateArg(2025, 1, 2) }

\* inputs of SpecLists, where all four tables are written with accepted plates,
\* positions and dates
ListPlateInputs == { <<"A">>, <<"B">> }

ListPositionInputs == { "F1", "R12" }

ListDateInputs == { StrArg(D_2025_01_01), StrArg(D_2025_01_02) }

\* inputs of SpecVehicles, where only tractors and trailers are written
VehiclePlateInputs == { <<"A">>, <<" ", "A", " ">>, <<"B">>, <<" ">> }

VehicleMileageInputs == { -1, 0, 7 }

-----------------------------------------------------------------------------
(* Text. *)

Range(s) == { s[i] : i \in DOMAIN s }

Digits == <<"0", "1", "2", "3", "4", "5", "6", "7", "8", "9">>

IsDigit(c) == c \in Range(Digits)

DigitValue(c) == (CHOOSE i \in DOMAIN Digits : Digits[i] = c) - 1

\* the byte of a character, for the characters the inputs are written with
Byte(c) ==
    CASE c = " " -> 32
      [] c = "-" -> 45
      [] IsDigit(c) -> 48 + DigitValue(c)
      [] c = "A" -> 65
      [] c = "B" -> 66
      [] c = "i" -> 105
      [] c = "l" -> 108
      [] c = "o" -> 111

RECURSIVE TextLess(_, _)
\* SQLite's BINARY collation on TEXT: byte by byte, a proper prefix first
TextLess(a, b) ==
    IF b = <<>> THEN FALSE
    ELSE IF a = <<>> THEN TRUE
    ELSE IF Byte(Head(a)) # Byte(Head(b)) THEN Byte(Head(a)) < Byte(Head(b))
    ELSE TextLess(Tail(a), Tail(b))

RECURSIVE lstrip(_)
lstrip(s) == IF s # <<>> /\ Head(s) = " " THEN lstrip(Tail(s)) ELSE s

RECURSIVE rstrip(_)
rstrip(s) ==
    IF s # <<>> /\ s[Len(s)] = " " THEN rstrip(SubSeq(s, 1, Len(s) - 1)) ELSE s

\* str.lstrip() in the place of str.strip()
strip_on_the_left_only(s) == lstrip(s)

\* str.strip()
strip(s) == rstrip(lstrip(s))

-----------------------------------------------------------------------------
(* Dates: _to_iso and the date.fromisoformat / date.isoformat it calls. *)

RECURSIVE int(_)
\* int() of a text of decimal digits
int(s) ==
    IF s = <<>> THEN 0
    ELSE 10 * int(SubSeq(s, 1, Len(s) - 1)) + DigitValue(s[Len(s)])

AllDigits(s) == \A i \in DOMAIN s : IsDigit(s[i])

is_leap(year) == year % 4 = 0 /\ (year % 100 # 0 \/ year % 400 = 0)

days_in_month(year, month) ==
    CASE month \in {1, 3, 5, 7, 8, 10, 12} -> 31
      [] month \in {4, 6, 9, 11} -> 30
      [] month = 2 -> IF is_leap(year) THEN 29 ELSE 28

\* the year, month, day range check of the date constructor
is_calendar_date(year, month, day) ==
    /\ 1 <= year /\ year <= 9999
    /\ 1 <= month /\ month <= 12
    /\ 1 <= day /\ day <= days_in_month(year, month)

\* date.fromisoformat(s) returns (TRUE) or raises ValueError (FALSE): YYYY-MM-DD
\* and, as CPython does from 3.11 on, the basic form YYYYMMDD. (The week forms
\* it also takes from 3.11 on have a W, which no text here has.)
fromisoformat(s) ==
    \/ /\ Len(s) = 10
       /\ s[5] = "-" /\ s[8] = "-"
       /\ AllDigits(SubSeq(s, 1, 4)) /\ AllDigits(SubSeq(s, 6, 7)) /\ AllDigits(SubSeq(s, 9, 10))
       /\ is_calendar_date(int(SubSeq(s, 1, 4)), int(SubSeq(s, 6, 7)), int(SubSeq(s, 9, 10)))
    \/ /\ Len(s) = 8
       /\ AllDigits(s)
       /\ is_calendar_date(int(SubSeq(s, 1, 4)), int(SubSeq(s, 5, 6)), int(SubSeq(s, 7, 8)))

\* "%0<width>d" of a natural number
zero_padded(n, width) ==
    [i \in 1..width |-> Digits[((n \div (10 ^ (width - i))) % 10) + 1]]

\* date.isoformat(): "%04d-%02d-%02d"
isoformat(d) ==
    zero_padded(d.year, 4) \o <<"-">> \o zero_padded(d.month, 2) \o <<"-">> \o zero_padded(d.day, 2)

\* whether _to_iso(d) raises ValueError
_to_iso_raises(d) == d.kind = "str" /\ ~fromisoformat(d.value)

\* the text _to_iso(d) returns when it does not raise
_to_iso(d) == IF d.kind = "str" THEN d.value ELSE isoformat(d)

-----------------------------------------------------------------------------
(* Positions. *)

\* None
None == [none |-> TRUE]

KnownVehicleTypes == { VEHICLE_TYPE_TRACTOR, VEHICLE_TYPE_TRAILER }

\* whether _get_valid_positions(vehicle_type) raises ValueError
_get_valid_positions_raises(vehicle_type) == vehicle_type \notin KnownVehicleTypes

\* _get_valid_positions returning TIRE_POSITIONS, the positions of both classes
_get_valid_positions_of_both_classes(vehicle_type) ==
    TRACTOR_TIRE_POSITIONS \o TRAILER_TIRE_POSITIONS

_get_valid_positions(vehicle_type) ==
    IF vehicle_type = VEHICLE_TYPE_TRACTOR THEN TRACTOR_TIRE_POSITIONS
    ELSE TRAILER_TIRE_POSITIONS

-----------------------------------------------------------------------------
(* The schema of init_db: the column constraints SQLite enforces on a write. *)

TableNames == { "tractors", "trailers", "tire_events", "maintenance_records" }

\* tractors: CHECK(mileage >= 0)
tractors_CHECK(row) == row.mileage >= 0

\* plate declared without UNIQUE
plate_UNIQUE_not_declared(table, id, plate) == TRUE

\* tractors, trailers: plate UNIQUE, tested against the rows other than `id`
plate_UNIQUE(table, id, plate) == \A r \in table : r.id # id => r.plate # plate

\* tire_events: the three CHECK constraints
tire_events_CHECK(row) ==
    /\ row.vehicle_type \in { "tractor", "trailer" }
    /\ row.position \in Range(TRACTOR_TIRE_POSITIONS \o TRAILER_TIRE_POSITIONS)
    /\ row.mileage >= 0

\* maintenance_records: the two CHECK constraints
maintenance_records_CHECK(row) ==
    /\ row.vehicle_type \in { "tractor", "trailer" }
    /\ row.mileage >= 0

\* the rows of a table, by its name
rows_of(table_name) ==
    CASE table_name = "tractors" -> tractors
      [] table_name = "trailers" -> trailers
      [] table_name = "tire_events" -> tire_events
      [] table_name = "maintenance_records" -> maintenance_records

\* INTEGER PRIMARY KEY without AUTOINCREMENT: one more than the largest id stored
next_id_after_largest_stored(table_name) ==
    IF rows_of(table_name) = {} THEN 1
    ELSE 1 + (CHOOSE n \in { r.id : r \in rows_of(table_name) } :
                 \A r \in rows_of(table_name) : r.id <= n)

\* INTEGER PRIMARY KEY AUTOINCREMENT: one more than the largest id ever issued
next_id(table_name) == sqlite_sequence[table_name] + 1

RECURSIVE SumOver(_, _)
SumOver(f, S) ==
    IF S = {} THEN 0
    ELSE LET x == CHOOSE y \in S : TRUE IN f[x] + SumOver(f, S \ {x})

\* rows inserted so far, in all tables
TotalRows == SumOver(sqlite_sequence, TableNames)

\* DEFAULT (datetime('now')) of created_at. The clock is an input of the INSERT;
\* it is read as the number of rows the table was given before, so that rows
\* inserted into a table one after the other differ in created_at
datetime_now(table_name) == sqlite_sequence[table_name]

RECURSIVE fetchall(_, _)
\* the rows of a SELECT in the order of its ORDER BY; `before` has the pairs
\* <<a, b>> of rows where a is sorted before b
fetchall(rows, before) ==
    IF rows = {} THEN <<>>
    ELSE LET first == CHOOSE r \in rows : \A o \in rows \ {r} : <<r, o>> \in before
         IN  <<first>> \o fetchall(rows \ {first}, before)

\* ORDER BY plate
plate_ascending(rows) == { pair \in rows \X rows : TextLess(pair[1].plate, pair[2].plate) }

-----------------------------------------------------------------------------
(* Outcomes of a call. *)

Returned(op, ret) == [op |-> op, result |-> "ok", error |-> "none", ret |-> ret]

Raised(op, exception, error) == [op |-> op, result |-> exception, error |-> error, ret |-> 0]

Init ==
    /\ tractors = {}
    /\ trailers = {}
    /\ tire_events = {}
    /\ maintenance_records = {}
    /\ sqlite_sequence = [t \in TableNames |-> 0]
    /\ last = Returned("init_db", 0)
    /\ visualizer = None
    /\ output_dir = None

\* the tables of the database file. init_db has made them before the first call
\* (Init), and no method of Database drops a table
sqlite_master == TableNames

\* DROP TABLE IF EXISTS and CREATE TABLE in the place of CREATE TABLE IF NOT EXISTS
CREATE_TABLE_after_DROP(table_name, rows) == {}

\* CREATE TABLE IF NOT EXISTS: the rows of the table after the statement
CREATE_TABLE_IF_NOT_EXISTS(table_name, rows) ==
    IF table_name \in sqlite_master THEN rows ELSE {}

\* init_db on the open database: one script of CREATE TABLE IF NOT EXISTS and
\* CREATE INDEX IF NOT EXISTS statements
init_db ==
    /\ last' = Returned("init_db", 0)
    /\ tractors' = CREATE_TABLE_IF_NOT_EXISTS("tractors", tractors)
    /\ trailers' = CREATE_TABLE_IF_NOT_EXISTS("trailers", trailers)
    /\ tire_events' = CREATE_TABLE_IF_NOT_EXISTS("tire_events", tire_events)
    /\ maintenance_records' =
           CREATE_TABLE_IF_NOT_EXISTS("maintenance_records", maintenance_records)
    /\ UNCHANGED <<sqlite_sequence, outside>>

-----------------------------------------------------------------------------
(* Tractors. *)

list_tractors == fetchall(tractors, plate_ascending(tractors))

\* create_tractor looking the plate up itself and raising ValueError when taken
create_tractor_outcome_plate_tested_in_python(plate, mileage, note) ==
    LET row == [id |-> next_id("tractors"), plate |-> strip(plate),
                mileage |-> mileage, note |-> note]
    IN  IF strip(plate) = <<>> THEN Raised("create_tractor", "ValueError", "plate_empty")
        ELSE IF mileage < 0 THEN Raised("create_tractor", "ValueError", "mileage_negative")
        ELSE IF ~plate_UNIQUE(tractors, row.id, row.plate)
             THEN Raised("create_tractor", "ValueError", "plate_unique")
        ELSE IF ~tractors_CHECK(row) THEN Raised("create_tractor", "IntegrityError", "check")
        ELSE Returned("create_tractor", row.id)

create_tractor_outcome(plate, mileage, note) ==
    LET row == [id |-> next_id("tractors"), plate |-> strip(plate),
                mileage |-> mileage, note |-> note]
    IN  IF strip(plate) = <<>> THEN Raised("create_tractor", "ValueError", "plate_empty")
        ELSE IF mileage < 0 THEN Raised("create_tractor", "ValueError", "mileage_negative")
        ELSE IF ~plate_UNIQUE(tractors, row.id, row.plate)
             THEN Raised("create_tractor", "IntegrityError", "plate_unique")
        ELSE IF ~tractors_CHECK(row) THEN Raised("create_tractor", "IntegrityError", "check")
        ELSE Returned("create_tractor", row.id)

create_tractor(plate, mileage, note) ==
    LET out == create_tractor_outcome(plate, mileage, note)
        row == [id |-> next_id("tractors"), plate |-> strip(plate),
                mileage |-> mileage, note |-> note, created_at |-> datetime_now("tractors")]
    IN  /\ TotalRows < MaxRows
        /\ last' = out
        /\ IF out.result = "ok"
           THEN /\ tractors' = tractors \cup {row}
                /\ sqlite_sequence' = [sqlite_sequence EXCEPT !["tractors"] = row.id]
           ELSE UNCHANGED <<tractors, sqlite_sequence>>
        /\ UNCHANGED <<trailers, tire_events, maintenance_records, outside>>

\* update_tractor when only INSERT is held to the UNIQUE plate
update_tractor_outcome_plate_unchecked(tractor_id, plate, mileage, note) ==
    IF strip(plate) = <<>> THEN Raised("update_tractor", "ValueError", "plate_empty")
    ELSE IF mileage < 0 THEN Raised("update_tractor", "ValueError", "mileage_negative")
    ELSE Returned("update_tractor", 0)

update_tractor_outcome(tractor_id, plate, mileage, note) ==
    LET matched == { r \in tractors : r.id = tractor_id }
        row == [id |-> tractor_id, plate |-> strip(plate), mileage |-> mileage, note |-> note]
    IN  IF strip(plate) = <<>> THEN Raised("update_tractor", "ValueError", "plate_empty")
        ELSE IF mileage < 0 THEN Raised("update_tractor", "ValueError", "mileage_negative")
        ELSE IF matched # {} /\ ~plate_UNIQUE(tractors, tractor_id, row.plate)
             THEN Raised("update_tractor", "IntegrityError", "plate_unique")
        ELSE IF matched # {} /\ ~tractors_CHECK(row)
             THEN Raised("update_tractor", "IntegrityError", "check")
        ELSE Returned("update_tractor", 0)

\* update_tractor setting created_at as well, to the time of the update
update_tractor_stamping_created_at(tractor_id, plate, mileage, note) ==
    LET out == update_tractor_outcome(tractor_id, plate, mileage, note)
    IN  /\ last' = out
        /\ IF out.result = "ok"
           THEN tractors' =
                    { IF r.id = tractor_id
                      THEN [r EXCEPT !.plate = strip(plate), !.mileage = mileage, !.note = note,
                                     !.created_at = datetime_now("tractors")]
                      ELSE r : r \in tractors }
           ELSE UNCHANGED tractors
        /\ UNCHANGED <<trailers, tire_events, maintenance_records, sqlite_sequence, outside>>

update_tractor(tractor_id, plate, mileage, note) ==
    LET out == update_tractor_outcome(tractor_id, plate, mileage, note)
    IN  /\ last' = out
        /\ IF out.result = "ok"
           THEN tractors' =
                    { IF r.id = tractor_id
                      THEN [r EXCEPT !.plate = strip(plate), !.mileage = mileage, !.note = note]
                      ELSE r : r \in tractors }
           ELSE UNCHANGED tractors
        /\ UNCHANGED <<trailers, tire_events, maintenance_records, sqlite_sequence, outside>>

\* delete_tractor without the DELETE FROM maintenance_records
delete_tractor_keeping_records(tractor_id) ==
    /\ last' = Returned("delete_tractor", 0)
    /\ tire_events' =
           { e \in tire_events :
               ~(e.vehicle_type = VEHICLE_TYPE_TRACTOR /\ e.vehicle_id = tractor_id) }
    /\ tractors' = { r \in tractors : r.id # tractor_id }
    /\ UNCHANGED <<trailers, maintenance_records, sqlite_sequence, outside>>

\* delete_tractor with vehicle_type left out of the WHERE of its two child DELETEs
delete_tractor_children_of_any_class(tractor_id) ==
    /\ last' = Returned("delete_tractor", 0)
    /\ tire_events' = { e \in tire_events : e.vehicle_id # tractor_id }
    /\ maintenance_records' = { m \in maintenance_records : m.vehicle_id # tractor_id }
    /\ tractors' = { r \in tractors : r.id # tractor_id }
    /\ UNCHANGED <<trailers, sqlite_sequence, outside>>

\* one transaction: the vehicle's tire events, its maintenance records, the vehicle
delete_tractor(tractor_id) ==
    /\ last' = Returned("delete_tractor", 0)
    /\ tire_events' =
           { e \in tire_events :
               ~(e.vehicle_type = VEHICLE_TYPE_TRACTOR /\ e.vehicle_id = tractor_id) }
    /\ maintenance_records' =
           { m \in maintenance_records :
               ~(m.vehicle_type = VEHICLE_TYPE_TRACTOR /\ m.vehicle_id = tractor_id) }
    /\ tractors' = { r \in tractors : r.id # tractor_id }
    /\ UNCHANGED <<trailers, sqlite_sequence, outside>>

\* the three DELETE statements of delete_tractor and delete_trailer, in order
DeleteStatements == 1..3

\* delete_tractor_interrupted with every statement committed by itself
delete_tractor_interrupted_without_rollback(tractor_id, failing) ==
    /\ last' = Raised("delete_tractor", "OperationalError", "statement_failed")
    /\ tire_events' =
           IF failing > 1
           THEN { e \in tire_events :
                    ~(e.vehicle_type = VEHICLE_TYPE_TRACTOR /\ e.vehicle_id = tractor_id) }
           ELSE tire_events
    /\ maintenance_records' =
           IF failing > 2
           THEN { m \in maintenance_records :
                    ~(m.vehicle_type = VEHICLE_TYPE_TRACTOR /\ m.vehicle_id = tractor_id) }
           ELSE maintenance_records
    /\ UNCHANGED <<tractors, trailers, sqlite_sequence, outside>>

\* delete_tractor when SQLite fails its statement number `failing` (disk, file):
\* the statements before it have run inside the transaction, the with-block
\* rolls the transaction back and lets the exception through
delete_tractor_interrupted(tractor_id, failing) ==
    /\ last' = Raised("delete_tractor", "OperationalError", "statement_failed")
    /\ UNCHANGED <<tables, outside>>

-----------------------------------------------------------------------------
(* Trailers. *)

list_trailers == fetchall(trailers, plate_ascending(trailers))

create_trailer_outcome(plate, note) ==
    LET row == [id |-> next_id("trailers"), plate |-> strip(plate), note |-> note]
    IN  IF strip(plate) = <<>> THEN Raised("create_trailer", "ValueError", "plate_empty")
        ELSE IF ~plate_UNIQUE(trailers, row.id, row.plate)
             THEN Raised("create_trailer", "IntegrityError", "plate_unique")
        ELSE Returned("create_trailer", row.id)

create_trailer(plate, note) ==
    LET out == create_trailer_outcome(plate, note)
        row == [id |-> next_id("trailers"), plate |-> strip(plate), note |-> note,
                created_at |-> datetime_now("trailers")]
    IN  /\ TotalRows < MaxRows
        /\ last' = out
        /\ IF out.result = "ok"
           THEN /\ trailers' = trailers \cup {row}
                /\ sqlite_sequence' = [sqlite_sequence EXCEPT !["trailers"] = row.id]
           ELSE UNCHANGED <<trailers, sqlite_sequence>>
        /\ UNCHANGED <<tractors, tire_events, maintenance_records, outside>>

\* update_trailer looking the row up first and raising when there is none
update_trailer_outcome_missing_row_raises(trailer_id, plate, note) ==
    LET matched == { r \in trailers : r.id = trailer_id }
    IN  IF strip(plate) = <<>> THEN Raised("update_trailer", "ValueError", "plate_empty")
        ELSE IF matched = {} THEN Raised("update_trailer", "ValueError", "record_missing")
        ELSE IF ~plate_UNIQUE(trailers, trailer_id, strip(plate))
             THEN Raised("update_trailer", "IntegrityError", "plate_unique")
        ELSE Returned("update_trailer", 0)

update_trailer_outcome(trailer_id, plate, note) ==
    LET matched == { r \in trailers : r.id = trailer_id }
    IN  IF strip(plate) = <<>> THEN Raised("update_trailer", "ValueError", "plate_empty")
        ELSE IF matched # {} /\ ~plate_UNIQUE(trailers, trailer_id, strip(plate))
             THEN Raised("update_trailer", "IntegrityError", "plate_unique")
        ELSE Returned("update_trailer", 0)

update_trailer(trailer_id, plate, note) ==
    LET out == update_trailer_outcome(trailer_id, plate, note)
    IN  /\ last' = out
        /\ IF out.result = "ok"
           THEN trailers' =
                    { IF r.id = trailer_id
                      THEN [r EXCEPT !.plate = strip(plate), !.note = note]
                      ELSE r : r \in trailers }
           ELSE UNCHANGED trailers
        /\ UNCHANGED <<tractors, tire_events, maintenance_records, sqlite_sequence, outside>>

delete_trailer(trailer_id) ==
    /\ last' = Returned("delete_trailer", 0)
    /\ tire_events' =
           { e \in tire_events :
               ~(e.vehicle_type = VEHICLE_TYPE_TRAILER /\ e.vehicle_id = trailer_id) }
    /\ maintenance_records' =
           { m \in maintenance_records :
               ~(m.vehicle_type = VEHICLE_TYPE_TRAILER /\ m.vehicle_id = trailer_id) }
    /\ trailers' = { r \in trailers : r.id # trailer_id }
    /\ UNCHANGED <<tractors, sqlite_sequence, outside>>

\* delete_trailer when SQLite fails its statement number `failing`
delete_trailer_interrupted(trailer_id, failing) ==
    /\ last' = Raised("delete_trailer", "OperationalError", "statement_failed")
    /\ UNCHANGED <<tables, outside>>

-----------------------------------------------------------------------------
(* Tire events. *)

\* create_tire_event without its test of the mileage
create_tire_event_outcome_mileage_untested(vehicle_type, vehicle_id, position, change_date, mileage) ==
    LET row == [vehicle_type |-> vehicle_type, position |-> position, mileage |-> mileage]
    IN  IF _get_valid_positions_raises(vehicle_type)
        THEN Raised("create_tire_event", "ValueError", "vehicle_type_unknown")
        ELSE IF position \notin Range(_get_valid_positions(vehicle_type))
             THEN Raised("create_tire_event", "ValueError", "position_invalid")
        ELSE IF _to_iso_raises(change_date)
             THEN Raised("create_tire_event", "ValueError", "date_invalid")
        ELSE IF ~tire_events_CHECK(row)
             THEN Raised("create_tire_event", "IntegrityError", "check")
        ELSE Returned("create_tire_event", next_id("tire_events"))

create_tire_event_outcome(vehicle_type, vehicle_id, position, change_date, mileage) ==
    LET row == [vehicle_type |-> vehicle_type, position |-> position, mileage |-> mileage]
    IN  IF _get_valid_positions_raises(vehicle_type)
        THEN Raised("create_tire_event", "ValueError", "vehicle_type_unknown")
        ELSE IF position \notin Range(_get_valid_positions(vehicle_type))
             THEN Raised("create_tire_event", "ValueError", "position_invalid")
        ELSE IF mileage < 0 THEN Raised("create_tire_event", "ValueError", "mileage_negative")
        ELSE IF _to_iso_raises(change_date)
             THEN Raised("create_tire_event", "ValueError", "date_invalid")
        ELSE IF ~tire_events_CHECK(row)
             THEN Raised("create_tire_event", "IntegrityError", "check")
        ELSE Returned("create_tire_event", next_id("tire_events"))

\* create_tire_event testing the date only after its INSERT has been committed
create_tire_event_date_tested_after_insert(vehicle_type, vehicle_id, position, change_date, mileage, brand, model, note) ==
    LET out == create_tire_event_outcome(vehicle_type, vehicle_id, position, change_date, mileage)
    IN  /\ TotalRows < MaxRows
        /\ sqlite_sequence["tire_events"] < MaxTireEvents
        /\ last' = out
        /\ IF out.result = "ok" \/ out.error = "date_invalid"
           THEN /\ tire_events' = tire_events \cup
                       { [id |-> next_id("tire_events"), vehicle_type |-> vehicle_type,
                          vehicle_id |-> vehicle_id, position |-> position,
                          change_date |-> _to_iso(change_date), mileage |-> mileage,
                          brand |-> brand, model |-> model, note |-> note,
                          created_at |-> datetime_now("tire_events")] }
                /\ sqlite_sequence' =
                       [sqlite_sequence EXCEPT !["tire_events"] = next_id("tire_events")]
           ELSE UNCHANGED <<tire_events, sqlite_sequence>>
        /\ UNCHANGED <<tractors, trailers, maintenance_records, outside>>

create_tire_event(vehicle_type, vehicle_id, position, change_date, mileage, brand, model, note) ==
    LET out == create_tire_event_outcome(vehicle_type, vehicle_id, position, change_date, mileage)
    IN  /\ TotalRows < MaxRows
        /\ sqlite_sequence["tire_events"] < MaxTireEvents
        /\ last' = out
        /\ IF out.result = "ok"
           THEN /\ tire_events' = tire_events \cup
                       { [id |-> next_id("tire_events"), vehicle_type |-> vehicle_type,
                          vehicle_id |-> vehicle_id, position |-> position,
                          change_date |-> _to_iso(change_date), mileage |-> mileage,
                          brand |-> brand, model |-> model, note |-> note,
                          created_at |-> datetime_now("tire_events")] }
                /\ sqlite_sequence' =
                       [sqlite_sequence EXCEPT !["tire_events"] = next_id("tire_events")]
           ELSE UNCHANGED <<tire_events, sqlite_sequence>>
        /\ UNCHANGED <<tractors, trailers, maintenance_records, outside>>

\* update_tire_event testing the position against TIRE_POSITIONS, whatever the
\* class recorded on the event
update_tire_event_outcome_any_class(event_id, position, change_date, mileage) ==
    LET matched == { e \in tire_events : e.id = event_id }
        vehicle_type == (CHOOSE e \in matched : TRUE).vehicle_type
        row == [vehicle_type |-> vehicle_type, position |-> position, mileage |-> mileage]
    IN  IF matched = {} THEN Raised("update_tire_event", "ValueError", "record_missing")
        ELSE IF position \notin Range(TRACTOR_TIRE_POSITIONS \o TRAILER_TIRE_POSITIONS)
             THEN Raised("update_tire_event", "ValueError", "position_invalid")
        ELSE IF mileage < 0 THEN Raised("update_tire_event", "ValueError", "mileage_negative")
        ELSE IF _to_iso_raises(change_date)
             THEN Raised("update_tire_event", "ValueError", "date_invalid")
        ELSE IF ~tire_events_CHECK(row)
             THEN Raised("update_tire_event", "IntegrityError", "check")
        ELSE Returned("update_tire_event", 0)

update_tire_event_outcome(event_id, position, change_date, mileage) ==
    LET matched == { e \in tire_events : e.id = event_id }
        vehicle_type == (CHOOSE e \in matched : TRUE).vehicle_type
        row == [vehicle_type |-> vehicle_type, position |-> position, mileage |-> mileage]
    IN  IF matched = {} THEN Raised("update_tire_event", "ValueError", "record_missing")
        ELSE IF _get_valid_positions_raises(vehicle_type)
             THEN Raised("update_tire_event", "ValueError", "vehicle_type_unknown")
        ELSE IF position \notin Range(_get_valid_positions(vehicle_type))
             THEN Raised("update_tire_event", "ValueError", "position_invalid")
        ELSE IF mileage < 0 THEN Raised("update_tire_event", "ValueError", "mileage_negative")
        ELSE IF _to_iso_raises(change_date)
             THEN Raised("update_tire_event", "ValueError", "date_invalid")
        ELSE IF ~tire_events_CHECK(row)
             THEN Raised("update_tire_event", "IntegrityError", "check")
        ELSE Returned("update_tire_event", 0)

\* update_tire_event taking any position of TIRE_POSITIONS and recording the
\* class that position belongs to
update_tire_event_moving_class(event_id, position, change_date, mileage, brand, model, note) ==
    LET out == update_tire_event_outcome_any_class(event_id, position, change_date, mileage)
        class == IF position \in Range(TRACTOR_TIRE_POSITIONS)
                 THEN VEHICLE_TYPE_TRACTOR ELSE VEHICLE_TYPE_TRAILER
    IN  /\ last' = out
        /\ IF out.result = "ok"
           THEN tire_events' =
                    { IF e.id = event_id
                      THEN [e EXCEPT !.vehicle_type = class,
                                     !.position = position, !.change_date = _to_iso(change_date),
                                     !.mileage = mileage, !.brand = brand, !.model = model,
                                     !.note = note]
                      ELSE e : e \in tire_events }
           ELSE UNCHANGED tire_events
        /\ UNCHANGED <<tractors, trailers, maintenance_records, sqlite_sequence, outside>>

update_tire_event(event_id, position, change_date, mileage, brand, model, note) ==
    LET out == update_tire_event_outcome(event_id, position, change_date, mileage)
    IN  /\ last' = out
        /\ IF out.result = "ok"
           THEN tire_events' =
                    { IF e.id = event_id
                      THEN [e EXCEPT !.position = position, !.change_date = _to_iso(change_date),
                                     !.mileage = mileage, !.brand = brand, !.model = model,
                                     !.note = note]
                      ELSE e : e \in tire_events }
           ELSE UNCHANGED tire_events
        /\ UNCHANGED <<tractors, trailers, maintenance_records, sqlite_sequence, outside>>

delete_tire_event(event_id) ==
    /\ last' = Returned("delete_tire_event", 0)
    /\ tire_events' = { e \in tire_events : e.id # event_id }
    /\ UNCHANGED <<tractors, trailers, maintenance_records, sqlite_sequence, outside>>

\* newer_first with the date left out of the ORDER BY
newer_first_by_id_only(a, b) == a.id > b.id

\* newer_first with the tie on the date broken by id ASC
newer_first_lowest_id(a, b) ==
    \/ TextLess(b.change_date, a.change_date)
    \/ a.change_date = b.change_date /\ a.id < b.id

\* ORDER BY change_date DESC, id DESC: a sorts before b
newer_first(a, b) ==
    \/ TextLess(b.change_date, a.change_date)
    \/ a.change_date = b.change_date /\ a.id > b.id

\* the optional position of list_tire_events: <<>> when it is None (the default),
\* <<p>> when the caller gives p
NoPosition == <<>>

\* whether list_tire_events(vehicle_type, vehicle_id, position) raises ValueError
list_tire_events_raises(vehicle_type, position) ==
    \/ _get_valid_positions_raises(vehicle_type)
    \/ position # NoPosition /\ position[1] \notin Range(_get_valid_positions(vehicle_type))

\* list_tire_events with vehicle_type left out of its WHERE
list_tire_events_of_any_class(vehicle_type, vehicle_id, position) ==
    LET rows == { e \in tire_events :
                    /\ e.vehicle_id = vehicle_id
                    /\ position # NoPosition => e.position = position[1] }
    IN  fetchall(rows, { pair \in rows \X rows : newer_first(pair[1], pair[2]) })

\* list_tire_events with ORDER BY change_date, id
list_tire_events_oldest_first(vehicle_type, vehicle_id, position) ==
    LET rows == { e \in tire_events :
                    /\ e.vehicle_type = vehicle_type
                    /\ e.vehicle_id = vehicle_id
                    /\ position # NoPosition => e.position = position[1] }
    IN  fetchall(rows, { pair \in rows \X rows : newer_first(pair[2], pair[1]) })

\* the list list_tire_events returns when it does not raise
list_tire_events(vehicle_type, vehicle_id, position) ==
    LET rows == { e \in tire_events :
                    /\ e.vehicle_type = vehicle_type
                    /\ e.vehicle_id = vehicle_id
                    /\ position # NoPosition => e.position = position[1] }
    IN  fetchall(rows, { pair \in rows \X rows : newer_first(pair[1], pair[2]) })

\* the subquery of current_tires with ORDER BY id DESC only: the row inserted last
latest_id_by_id_only(t) ==
    LET same == { t2 \in tire_events :
                    /\ t2.vehicle_type = t.vehicle_type
                    /\ t2.vehicle_id = t.vehicle_id
                    /\ t2.position = t.position }
    IN  (CHOOSE t2 \in same : \A o \in same : t2.id >= o.id).id

\* the correlated subquery of current_tires: the id of the first row, in
\* newer_first order, among the rows of t's vehicle and position
latest_id(t) ==
    LET same == { t2 \in tire_events :
                    /\ t2.vehicle_type = t.vehicle_type
                    /\ t2.vehicle_id = t.vehicle_id
                    /\ t2.position = t.position }
    IN  (CHOOSE t2 \in same : \A o \in same \ {t2} : newer_first(t2, o)).id

\* current_tires returning latest_by_pos itself
current_tires_history_only(vehicle_type, vehicle_id) ==
    LET rows == { t \in tire_events :
                    /\ t.vehicle_type = vehicle_type
                    /\ t.vehicle_id = vehicle_id
                    /\ t.id = latest_id(t) }
    IN  [p \in { r.position : r \in rows } |-> CHOOSE r \in rows : r.position = p]

\* current_tires(vehicle_type, vehicle_id) for a known vehicle type
current_tires(vehicle_type, vehicle_id) ==
    LET valid_positions == _get_valid_positions(vehicle_type)
        rows == { t \in tire_events :
                    /\ t.vehicle_type = vehicle_type
                    /\ t.vehicle_id = vehicle_id
                    /\ t.id = latest_id(t) }
        latest_by_pos == [p \in { r.position : r \in rows } |->
                              CHOOSE r \in rows : r.position = p]
    IN  [pos \in Range(valid_positions) |->
            IF pos \in DOMAIN latest_by_pos THEN latest_by_pos[pos] ELSE None]

-----------------------------------------------------------------------------
(* Maintenance records. *)

\* ORDER BY service_date DESC, id DESC: a sorts before b
newer_service_first(a, b) ==
    \/ TextLess(b.service_date, a.service_date)
    \/ a.service_date = b.service_date /\ a.id > b.id

list_maintenance_records(vehicle_type, vehicle_id) ==
    LET rows == { m \in maintenance_records :
                    m.vehicle_type = vehicle_type /\ m.vehicle_id = vehicle_id }
    IN  fetchall(rows, { pair \in rows \X rows : newer_service_first(pair[1], pair[2]) })

create_maintenance_record_outcome(vehicle_type, vehicle_id, record_type, service_date, mileage) ==
    LET row == [vehicle_type |-> vehicle_type, mileage |-> mileage]
    IN  IF strip(record_type) = <<>>
        THEN Raised("create_maintenance_record", "ValueError", "record_type_empty")
        ELSE IF mileage < 0
             THEN Raised("create_maintenance_record", "ValueError", "mileage_negative")
        ELSE IF _to_iso_raises(service_date)
             THEN Raised("create_maintenance_record", "ValueError", "date_invalid")
        ELSE IF ~maintenance_records_CHECK(row)
             THEN Raised("create_maintenance_record", "IntegrityError", "check")
        ELSE Returned("create_maintenance_record", next_id("maintenance_records"))

create_maintenance_record(vehicle_type, vehicle_id, record_type, service_date, mileage, note) ==
    LET out == create_maintenance_record_outcome(vehicle_type, vehicle_id, record_type,
                                                  service_date, mileage)
    IN  /\ TotalRows < MaxRows
        /\ last' = out
        /\ IF out.result = "ok"
           THEN /\ maintenance_records' = maintenance_records \cup
                       { [id |-> next_id("maintenance_records"), vehicle_type |-> vehicle_type,
                          vehicle_id |-> vehicle_id, record_type |-> strip(record_type),
                          service_date |-> _to_iso(service_date), mileage |-> mileage,
                          note |-> note, created_at |-> datetime_now("maintenance_records")] }
                /\ sqlite_sequence' = [sqlite_sequence EXCEPT
                       !["maintenance_records"] = next_id("maintenance_records")]
           ELSE UNCHANGED <<maintenance_records, sqlite_sequence>>
        /\ UNCHANGED <<tractors, trailers, tire_events, outside>>

\* update_maintenance_record writing the mileage as given: no test in the method,
\* no CHECK on the column
update_maintenance_record_outcome_mileage_as_given(record_id, record_type, service_date, mileage) ==
    IF strip(record_type) = <<>>
    THEN Raised("update_maintenance_record", "ValueError", "record_type_empty")
    ELSE IF _to_iso_raises(service_date)
         THEN Raised("update_maintenance_record", "ValueError", "date_invalid")
    ELSE Returned("update_maintenance_record", 0)

update_maintenance_record_outcome(record_id, record_type, service_date, mileage) ==
    LET matched == { m \in maintenance_records : m.id = record_id }
    IN  IF strip(record_type) = <<>>
        THEN Raised("update_maintenance_record", "ValueError", "record_type_empty")
        ELSE IF mileage < 0
             THEN Raised("update_maintenance_record", "ValueError", "mileage_negative")
        ELSE IF _to_iso_raises(service_date)
             THEN Raised("update_maintenance_record", "ValueError", "date_invalid")
        ELSE IF \E m \in matched : ~maintenance_records_CHECK([m EXCEPT !.mileage = mileage])
             THEN Raised("update_maintenance_record", "IntegrityError", "check")
        ELSE Returned("update_maintenance_record", 0)

update_maintenance_record(record_id, record_type, service_date, mileage, note) ==
    LET out == update_maintenance_record_outcome(record_id, record_type, service_date, mileage)
    IN  /\ last' = out
        /\ IF out.result = "ok"
           THEN maintenance_records' =
                    { IF m.id = record_id
                      THEN [m EXCEPT !.record_type = strip(record_type),
                                     !.service_date = _to_iso(service_date),
                                     !.mileage = mileage, !.note = note]
                      ELSE m : m \in maintenance_records }
           ELSE UNCHANGED maintenance_records
        /\ UNCHANGED <<tractors, trailers, tire_events, sqlite_sequence, outside>>

delete_maintenance_record(record_id) ==
    /\ last' = Returned("delete_maintenance_record", 0)
    /\ maintenance_records' = { m \in maintenance_records : m.id # record_id }
    /\ UNCHANGED <<tractors, trailers, tire_events, sqlite_sequence, outside>>

-----------------------------------------------------------------------------
(* exporter.py: export_csv. A file is the sequence of the rows written to it, *)
(* the header first; a row is the tuple of the values given to writerow.      *)

\* the directory at output_dir with its files, by name
Directory(files) == [files |-> files]

\* Path(output_dir).mkdir() by the caller, before the export
mkdir ==
    /\ output_dir = None
    /\ output_dir' = Directory(<<>>)
    /\ last' = Returned("mkdir", 0)
    /\ UNCHANGED <<tables, visualizer>>

\* the labels of the two classes in the export, in ASCII here; the exporter
\* writes them in Chinese
TractorLabel == "qianyinche"

TrailerLabel == "guache"

RECURSIVE chain(_)
\* the rows of a loop in a loop: the lists of the inner loops, one after the other
chain(lists) == IF lists = <<>> THEN <<>> ELSE Head(lists) \o chain(Tail(lists))

tractors_csv ==
    <<  <<"id", "plate", "mileage", "note", "created_at">>  >> \o
    [i \in DOMAIN list_tractors |->
        LET v == list_tractors[i] IN <<v.id, v.plate, v.mileage, v.note, v.created_at>>]

trailers_csv ==
    <<  <<"id", "plate", "note", "created_at">>  >> \o
    [i \in DOMAIN list_trailers |->
        LET v == list_trailers[i] IN <<v.id, v.plate, v.note, v.created_at>>]

\* for v in vehicles: for e in db.list_tire_events(vehicle_type, v.id): writerow
tire_event_rows(vehicle_type, label, vehicles) ==
    chain([i \in DOMAIN vehicles |->
        LET v == vehicles[i]
            events == list_tire_events(vehicle_type, v.id, NoPosition)
        IN  [j \in DOMAIN events |->
                LET e == events[j]
                IN  <<e.id, label, e.vehicle_id, v.plate, e.position, e.change_date,
                      e.mileage, e.brand, e.model, e.note, e.created_at>>]])

tire_events_csv ==
    <<  <<"id", "vehicle_type", "vehicle_id", "vehicle_plate", "position", "change_date",
          "mileage", "brand", "model", "note", "created_at">>  >> \o
    tire_event_rows(VEHICLE_TYPE_TRACTOR, TractorLabel, list_tractors) \o
    tire_event_rows(VEHICLE_TYPE_TRAILER, TrailerLabel, list_trailers)

\* for v in vehicles: for r in db.list_maintenance_records(vehicle_type, v.id): writerow
maintenance_record_rows(vehicle_type, label, vehicles) ==
    chain([i \in DOMAIN vehicles |->
        LET v == vehicles[i]
            records == list_maintenance_records(vehicle_type, v.id)
        IN  [j \in DOMAIN records |->
                LET r == records[j]
                IN  <<r.id, label, r.vehicle_id, v.plate, r.record_type, r.service_date,
                      r.mileage, r.note, r.created_at>>]])

maintenance_records_csv ==
    <<  <<"id", "vehicle_type", "vehicle_id", "vehicle_plate", "record_type", "service_date",
          "mileage", "note", "created_at">>  >> \o
    maintenance_record_rows(VEHICLE_TYPE_TRACTOR, TractorLabel, list_tractors) \o
    maintenance_record_rows(VEHICLE_TYPE_TRAILER, TrailerLabel, list_trailers)

\* the list export_csv returns: the names of the four paths, in the order written
written == <<"tractors.csv", "trailers.csv", "tire_events.csv", "maintenance_records.csv">>

\* export_csv with mkdir(parents=True) only: FileExistsError when the directory
\* is there already
export_csv_into_a_new_directory_only ==
    /\ last' = IF output_dir = None THEN Returned("export_csv", written)
               ELSE Raised("export_csv", "FileExistsError", "directory_exists")
    /\ output_dir' =
           IF output_dir = None
           THEN Directory(("tractors.csv" :> tractors_csv) @@ ("trailers.csv" :> trailers_csv)
                          @@ ("tire_events.csv" :> tire_events_csv)
                          @@ ("maintenance_records.csv" :> maintenance_records_csv))
           ELSE output_dir
    /\ UNCHANGED <<tables, visualizer>>

\* export_csv(db, output_dir): the directory is made if it is not there, and each
\* of the four files is opened with "w", which replaces what it held
export_csv ==
    LET kept == IF output_dir = None THEN <<>> ELSE output_dir.files
    IN  /\ last' = Returned("export_csv", written)
        /\ output_dir' =
               Directory(("tractors.csv" :> tractors_csv) @@ ("trailers.csv" :> trailers_csv)
                         @@ ("tire_events.csv" :> tire_events_csv)
                         @@ ("maintenance_records.csv" :> maintenance_records_csv)
                         @@ kept)
        /\ UNCHANGED <<tables, visualizer>>

-----------------------------------------------------------------------------
(* app_merged.py: TireVisualizer, the canvas that draws the tires of a vehicle. *)

\* the appearance itemconfigure gives a tire rectangle
Plain == [fill |-> "#444", outline |-> "#000", width |-> 1]

Selected == [fill |-> "#3b8ed0", outline |-> "#1d4f7c", width |-> 2]

\* whether _draw_vehicle raises IndexError: the layout of the second branch reads
\* tire_positions[0] to tire_positions[5]
_draw_vehicle_raises(tire_positions) == Len(tire_positions) # 4 /\ Len(tire_positions) < 6

\* the labels in the layout of _draw_vehicle: the four of the tuple when it has
\* four, otherwise its first six
layout(tire_positions) ==
    IF Len(tire_positions) = 4 THEN tire_positions ELSE SubSeq(tire_positions, 1, 6)

\* the canvas id of the rectangle of the i-th tire of the layout: five items are
\* drawn before the tires in either branch, then a rectangle and a text per tire
tire_tag(i) == 6 + 2 * (i - 1)

\* _item_map after _draw_vehicle
_draw_vehicle(tire_positions) ==
    LET drawn == layout(tire_positions)
    IN  [pos \in Range(drawn) |-> tire_tag(CHOOSE i \in DOMAIN drawn : drawn[i] = pos)]

\* TireVisualizer(parent, tire_positions, vehicle_label, on_select)
TireVisualizer(tire_positions, vehicle_label) ==
    /\ IF _draw_vehicle_raises(tire_positions)
       THEN /\ last' = Raised("TireVisualizer", "IndexError", "tuple_index")
            /\ UNCHANGED visualizer
       ELSE /\ last' = Returned("TireVisualizer", 0)
            /\ visualizer' =
                   [tire_positions |-> tire_positions,
                    vehicle_label |-> vehicle_label,
                    selected_pos |-> NoPosition,
                    _item_map |-> _draw_vehicle(tire_positions),
                    items |-> [tag \in { tire_tag(i) : i \in DOMAIN layout(tire_positions) }
                                   |-> Plain]]
    /\ UNCHANGED <<tables, output_dir>>

\* select(pos); pos is <<>> for None and <<p>> for the label p
select(pos) ==
    LET reset == IF /\ visualizer.selected_pos # NoPosition
                    /\ visualizer.selected_pos[1] \in DOMAIN visualizer._item_map
                 THEN [visualizer.items EXCEPT
                          ![visualizer._item_map[visualizer.selected_pos[1]]] = Plain]
                 ELSE visualizer.items
    IN  /\ visualizer # None
        /\ last' = Returned("select", 0)
        /\ visualizer' =
               [visualizer EXCEPT
                   !.selected_pos = pos,
                   !.items = IF pos # NoPosition /\ pos[1] \in DOMAIN visualizer._item_map
                             THEN [reset EXCEPT ![visualizer._item_map[pos[1]]] = Selected]
                             ELSE reset]
        /\ UNCHANGED <<tables, output_dir>>

\* _on_hover(pos, enter), bound to <Enter> and <Leave> of the rectangle of pos
_on_hover(pos, enter) ==
    /\ visualizer # None
    /\ pos \in DOMAIN visualizer._item_map
    /\ last' = Returned("_on_hover", 0)
    /\ IF visualizer.selected_pos = <<pos>> THEN UNCHANGED visualizer
       ELSE visualizer' =
                [visualizer EXCEPT
                    !.items[visualizer._item_map[pos]].fill = IF enter THEN "#666" ELSE "#444"]
    /\ UNCHANGED <<tables, output_dir>>

-----------------------------------------------------------------------------
(* The caller: any call, with any of the inputs, one at a time. *)

TractorCalls(Plates, Mileages) ==
    \/ \E plate \in Plates, mileage \in Mileages, note \in NoteInputs :
           create_tractor(plate, mileage, note)
    \/ \E id \in RowIdInputs, plate \in Plates, mileage \in Mileages, note \in NoteInputs :
           update_tractor(id, plate, mileage, note)
    \/ \E id \in RowIdInputs : delete_tractor(id)
    \/ \E id \in RowIdInputs, failing \in DeleteStatements :
           delete_tractor_interrupted(id, failing)

TrailerCalls(Plates) ==
    \/ \E plate \in Plates, note \in NoteInputs : create_trailer(plate, note)
    \/ \E id \in RowIdInputs, plate \in Plates, note \in NoteInputs :
           update_trailer(id, plate, note)
    \/ \E id \in RowIdInputs : delete_trailer(id)
    \/ \E id \in RowIdInputs, failing \in DeleteStatements :
           delete_trailer_interrupted(id, failing)

TireEventCalls(VehicleIds, Positions, Dates) ==
    \/ \E vehicle_type \in VehicleTypeInputs, vehicle_id \in VehicleIds,
          position \in Positions, change_date \in Dates,
          mileage \in MileageInputs, text \in NoteInputs :
           create_tire_event(vehicle_type, vehicle_id, position, change_date, mileage,
                             text, text, text)
    \/ \E id \in RowIdInputs, position \in Positions, change_date \in Dates,
          mileage \in MileageInputs, text \in NoteInputs :
           update_tire_event(id, position, change_date, mileage, text, text, text)
    \/ \E id \in RowIdInputs : delete_tire_event(id)

MaintenanceCalls(VehicleIds, Dates) ==
    \/ \E vehicle_type \in VehicleTypeInputs, vehicle_id \in VehicleIds,
          record_type \in RecordTypeInputs, service_date \in Dates,
          mileage \in MileageInputs, note \in NoteInputs :
           create_maintenance_record(vehicle_type, vehicle_id, record_type, service_date,
                                     mileage, note)
    \/ \E id \in RowIdInputs, record_type \in RecordTypeInputs, service_date \in Dates,
          mileage \in MileageInputs, note \in NoteInputs :
           update_maintenance_record(id, record_type, service_date, mileage, note)
    \/ \E id \in RowIdInputs : delete_maintenance_record(id)

\* every method of Database that writes
Next ==
    \/ TractorCalls(PlateInputs, MileageInputs)
    \/ TrailerCalls(PlateInputs)
    \/ TireEventCalls(VehicleIdInputs, PositionInputs, DateInputs)
    \/ MaintenanceCalls(VehicleIdInputs, DateInputs)

Spec == Init /\ [][Next]_vars

\* the methods that write tire_events
NextTires ==
    \/ TireEventCalls(TireVehicleIdInputs, TirePositionInputs, TireDateInputs)
    \/ \E id \in RowIdInputs : delete_tractor(id)
    \/ \E id \in RowIdInputs : delete_trailer(id)

SpecTires == Init /\ [][NextTires]_vars

\* the methods that write tractors and trailers
NextVehicles ==
    \/ TractorCalls(VehiclePlateInputs, VehicleMileageInputs)
    \/ TrailerCalls(VehiclePlateInputs)

SpecVehicles == Init /\ [][NextVehicles]_vars

\* the methods that write tire events and maintenance records
NextDates ==
    \/ TireEventCalls(VehicleIdInputs, FormPositionInputs, FormDateInputs)
    \/ MaintenanceCalls(VehicleIdInputs, FormDateInputs)

SpecDates == Init /\ [][NextDates]_vars

\* the calls that give the rows the plates and dates the list methods sort by,
\* and the deletes of vehicles
NextLists ==
    \/ \E plate \in ListPlateInputs, mileage \in MileageInputs, note \in NoteInputs :
           create_tractor(plate, mileage, note)
    \/ \E id \in RowIdInputs : delete_tractor(id)
    \/ \E plate \in ListPlateInputs, note \in NoteInputs : create_trailer(plate, note)
    \/ \E id \in RowIdInputs : delete_trailer(id)
    \/ \E vehicle_type \in VehicleTypeInputs, vehicle_id \in VehicleIdInputs,
          position \in ListPositionInputs, change_date \in ListDateInputs,
          mileage \in MileageInputs, text \in NoteInputs :
           create_tire_event(vehicle_type, vehicle_id, position, change_date, mileage,
                             text, text, text)
    \/ \E id \in RowIdInputs, position \in ListPositionInputs, change_date \in ListDateInputs,
          mileage \in MileageInputs, text \in NoteInputs :
           update_tire_event(id, position, change_date, mileage, text, text, text)
    \/ \E vehicle_type \in VehicleTypeInputs, vehicle_id \in VehicleIdInputs,
          record_type \in RecordTypeInputs, service_date \in ListDateInputs,
          mileage \in MileageInputs, note \in NoteInputs :
           create_maintenance_record(vehicle_type, vehicle_id, record_type, service_date,
                                     mileage, note)
    \/ \E id \in RowIdInputs, record_type \in RecordTypeInputs, service_date \in ListDateInputs,
          mileage \in MileageInputs, note \in NoteInputs :
           update_maintenance_record(id, record_type, service_date, mileage, note)

SpecLists == Init /\ [][NextLists]_vars

\* inputs of SpecExport, where the store is written and exported
ExportPlateInputs == { <<"A">> }

ExportMileageInputs == { 0 }

ExportPositionInputs == { "F1", "R12" }

ExportDateInputs == { StrArg(D_2025_01_01) }

ExportRecordTypeInputs == { <<"o", "i", "l">> }

\* the calls that fill and empty the store, and the export
NextExport ==
    \/ \E plate \in ExportPlateInputs, mileage \in ExportMileageInputs, note \in NoteInputs :
           create_tractor(plate, mileage, note)
    \/ \E plate \in ExportPlateInputs, note \in NoteInputs : create_trailer(plate, note)
    \/ \E id \in RowIdInputs : delete_tractor(id)
    \/ \E vehicle_type \in VehicleTypeInputs, vehicle_id \in VehicleIdInputs,
          position \in ExportPositionInputs, change_date \in ExportDateInputs,
          mileage \in ExportMileageInputs, text \in NoteInputs :
           create_tire_event(vehicle_type, vehicle_id, position, change_date, mileage,
                             text, text, text)
    \/ \E vehicle_type \in VehicleTypeInputs, vehicle_id \in VehicleIdInputs,
          record_type \in ExportRecordTypeInputs, service_date \in ExportDateInputs,
          mileage \in ExportMileageInputs, note \in NoteInputs :
           create_maintenance_record(vehicle_type, vehicle_id, record_type, service_date,
                                     mileage, note)
    \/ mkdir
    \/ export_csv

SpecExport == Init /\ [][NextExport]_vars

\* every method that writes, with the inputs of the export, and init_db again
NextSchema ==
    \/ TractorCalls(ExportPlateInputs, ExportMileageInputs)
    \/ TrailerCalls(ExportPlateInputs)
    \/ TireEventCalls(VehicleIdInputs, ExportPositionInputs, ExportDateInputs)
    \/ MaintenanceCalls(VehicleIdInputs, ExportDateInputs)
    \/ init_db

SpecSchema == Init /\ [][NextSchema]_vars

\* inputs of SpecVisualizer: the tuples and labels the two windows construct the
\* widget with, the positions selected
VisualizerTupleInputs == { TRACTOR_TIRE_POSITIONS, TRAILER_TIRE_POSITIONS }

VisualizerLabelInputs == { TractorLabel, TrailerLabel }

VisualizerSelectInputs == { NoPosition, <<"F1">>, <<"F5">>, <<"F8">>, <<"R1">>, <<"R12">> }

VisualizerHoverInputs == { "F1", "F2", "F5", "R1", "R2" }

\* the window constructing the widget, selecting in it, the pointer over a tire
NextVisualizer ==
    \/ \E tire_positions \in VisualizerTupleInputs, vehicle_label \in VisualizerLabelInputs :
           TireVisualizer(tire_positions, vehicle_label)
    \/ \E pos \in VisualizerSelectInputs : select(pos)
    \/ \E pos \in VisualizerHoverInputs, enter \in BOOLEAN : _on_hover(pos, enter)

SpecVisualizer == Init /\ [][NextVisualizer]_vars

-----------------------------------------------------------------------------
(* Properties. *)

\* the position set of each vehicle class, label by label
ClassPositions(vehicle_class) ==
    IF vehicle_class = "tractor"
    THEN { "F1", "F2", "F3", "F4", "F5", "F6", "F7", "F8" }
    ELSE { "R1", "R2", "R3", "R4", "R5", "R6", "R7", "R8", "R9", "R10", "R11", "R12" }

VehicleClasses == { "tractor", "trailer" }

\* vehicle ids asked about: those the calls use and one that no call names
AskedVehicleIds == TireVehicleIdInputs \cup { 3 }

\* the history of one position of one vehicle
EventsAt(vehicle_class, vehicle_id, position) ==
    { e \in tire_events :
        /\ e.vehicle_type = vehicle_class
        /\ e.vehicle_id = vehicle_id
        /\ e.position = position }

\* C1: for every class and every vehicle id, with or without events or a vehicle
\* row, current_tires has exactly the class's positions as keys (8 for a tractor,
\* 12 for a trailer), and a position maps to None exactly when it has no event.
C1_EveryPositionHasAnEntry ==
    \A c \in VehicleClasses, v \in AskedVehicleIds :
        LET current == current_tires(c, v)
        IN  /\ DOMAIN current = ClassPositions(c)
            /\ Cardinality(DOMAIN current) = (IF c = "tractor" THEN 8 ELSE 12)
            /\ \A p \in ClassPositions(c) :
                   IF EventsAt(c, v, p) = {} THEN current[p] = None
                   ELSE current[p] \in EventsAt(c, v, p)

\* C1 witness: tractor 1 has a current tire at one position and none at another,
\* and a vehicle id no call named is asked about
C1_Witness ==
    /\ EventsAt("tractor", 1, "F1") # {}
    /\ current_tires("tractor", 1)["F1"] # None
    /\ current_tires("tractor", 1)["F2"] = None
    /\ current_tires("trailer", 3)["R12"] = None
    /\ EventsAt("trailer", 2, "R12") # {}

\* C2: at every position with history the current event is one of that history
\* and no event of the history has a later change_date.
C2_CurrentHasLatestDate ==
    \A c \in VehicleClasses, v \in AskedVehicleIds : \A p \in ClassPositions(c) :
        EventsAt(c, v, p) # {} =>
            LET current == current_tires(c, v)[p]
            IN  /\ current \in EventsAt(c, v, p)
                /\ \A e \in EventsAt(c, v, p) :
                       ~TextLess(current.change_date, e.change_date)

\* C2 witness: the event inserted first carries the later date and is current
C2_Witness ==
    \E e1, e2 \in tire_events :
        /\ e1.id < e2.id
        /\ e1.vehicle_type = e2.vehicle_type
        /\ e1.vehicle_id = e2.vehicle_id
        /\ e1.position = e2.position
        /\ e1.change_date = D_2025_01_02
        /\ e2.change_date = D_2025_01_01
        /\ current_tires(e1.vehicle_type, e1.vehicle_id)[e1.position] = e1

\* C3: among the events of a position that carry its latest change_date, the
\* current one has the greatest id.
C3_TieOnDateBrokenByGreatestId ==
    \A c \in VehicleClasses, v \in AskedVehicleIds : \A p \in ClassPositions(c) :
        EventsAt(c, v, p) # {} =>
            LET current == current_tires(c, v)[p]
                latest == { e \in EventsAt(c, v, p) :
                              \A o \in EventsAt(c, v, p) :
                                  ~TextLess(e.change_date, o.change_date) }
            IN  /\ current \in latest
                /\ \A e \in latest : e.id <= current.id

\* C3 witness: an update has just been applied and two events of one position
\* share their date; the one with the greater id is current
C3_Witness ==
    /\ last.op = "update_tire_event"
    /\ last.result = "ok"
    /\ \E e1, e2 \in tire_events :
        /\ e1.id < e2.id
        /\ e1.vehicle_type = e2.vehicle_type
        /\ e1.vehicle_id = e2.vehicle_id
        /\ e1.position = e2.position
        /\ e1.change_date = e2.change_date
        /\ current_tires(e1.vehicle_type, e1.vehicle_id)[e1.position] = e2

\* the rows of one vehicle, in the parent table and in both child tables
VehicleIsGone(vehicle_class, vehicle_id, parents, events, records) ==
    /\ \A r \in parents : r.id # vehicle_id
    /\ \A e \in events : ~(e.vehicle_type = vehicle_class /\ e.vehicle_id = vehicle_id)
    /\ \A m \in records : ~(m.vehicle_type = vehicle_class /\ m.vehicle_id = vehicle_id)

\* C4: when delete_tractor(v) or delete_trailer(v) has returned, the vehicle is in
\* no parent row and no tire event or maintenance record of that class and id is
\* left, however many there were.
C4_DeleteVehicleCascades ==
    [][ \A v \in RowIdInputs :
          /\ delete_tractor(v) =>
                 /\ last'.result = "ok"
                 /\ VehicleIsGone("tractor", v, tractors', tire_events', maintenance_records')
          /\ delete_trailer(v) =>
                 /\ last'.result = "ok"
                 /\ VehicleIsGone("trailer", v, trailers', tire_events', maintenance_records')
      ]_vars

\* C4 witness: a tractor, a tire event and a maintenance record were inserted and
\* delete_tractor has left all three tables empty
C4_Witness ==
    /\ last.op = "delete_tractor"
    /\ sqlite_sequence["tractors"] = 1
    /\ sqlite_sequence["tire_events"] = 1
    /\ sqlite_sequence["maintenance_records"] = 1
    /\ tractors = {}
    /\ tire_events = {}
    /\ maintenance_records = {}

\* C5: create_tire_event with a position outside the class's position set raises
\* ValueError and leaves tire_events as it was, rows and count. (Read: a step of
\* create_tire_event either did so, or is no call with such a position.)
C5_InvalidPositionRejected ==
    [][ \/ last'.op # "create_tire_event"
        \/ /\ last'.result = "ValueError"
           /\ tire_events' = tire_events
           /\ Cardinality(tire_events') = Cardinality(tire_events)
        \/ ~\E c \in VehicleTypeInputs, v \in TireVehicleIdInputs, p \in TirePositionInputs,
               d \in TireDateInputs, m \in MileageInputs, text \in NoteInputs :
              /\ p \notin ClassPositions(c)
              /\ create_tire_event(c, v, p, d, m, text, text, text)
      ]_vars

\* C5 witness: a create was refused for its position while the table held a row
C5_Witness ==
    /\ last.op = "create_tire_event"
    /\ last.result = "ValueError"
    /\ last.error = "position_invalid"
    /\ tire_events # {}

PlatesUnique(table) == \A r1, r2 \in table : r1.plate = r2.plate => r1.id = r2.id

\* C6: creating a vehicle with the plate of an existing vehicle of its class
\* fails; the table is unchanged and the existing vehicle is the one row with
\* that plate.
C6_DuplicatePlateRefused ==
    [][ /\ \/ last'.op # "create_tractor"
           \/ last'.result # "ok" /\ tractors' = tractors
           \/ ~\E plate \in VehiclePlateInputs, mileage \in VehicleMileageInputs,
                  note \in NoteInputs :
                 /\ \E r \in tractors : r.plate = plate
                 /\ create_tractor(plate, mileage, note)
        /\ \/ last'.op # "create_trailer"
           \/ last'.result # "ok" /\ trailers' = trailers
           \/ ~\E plate \in VehiclePlateInputs, note \in NoteInputs :
                 /\ \E r \in trailers : r.plate = plate
                 /\ create_trailer(plate, note)
        /\ last'.op \in { "create_tractor", "create_trailer" } /\ last'.result # "ok"
               => PlatesUnique(tractors') /\ PlatesUnique(trailers')
      ]_vars

\* C6 witness: the UNIQUE constraint has just refused a second tractor
C6_Witness ==
    /\ last.op = "create_tractor"
    /\ last.result = "IntegrityError"
    /\ last.error = "plate_unique"
    /\ Cardinality(tractors) = 1

\* C7: create_tractor, create_tire_event and create_maintenance_record raise
\* ValueError on a negative mileage and add no row. (Read: a step of one of the
\* three either did so, or is no call with a negative mileage.)
C7_NegativeMileageRejected ==
    [][ \/ last'.op \notin { "create_tractor", "create_tire_event", "create_maintenance_record" }
        \/ last'.result = "ValueError" /\ UNCHANGED tables
        \/ ~\E mileage \in { m \in MileageInputs : m < 0 } :
              \/ \E plate \in PlateInputs, note \in NoteInputs :
                     create_tractor(plate, mileage, note)
              \/ \E c \in VehicleTypeInputs, v \in VehicleIdInputs, p \in PositionInputs,
                    d \in DateInputs, text \in NoteInputs :
                     create_tire_event(c, v, p, d, mileage, text, text, text)
              \/ \E c \in VehicleTypeInputs, v \in VehicleIdInputs, t \in RecordTypeInputs,
                    d \in DateInputs, note \in NoteInputs :
                     create_maintenance_record(c, v, t, d, mileage, note)
      ]_vars

\* C7 witness: create_tire_event has just refused a negative mileage
C7_Witness ==
    /\ last.op = "create_tire_event"
    /\ last.result = "ValueError"
    /\ last.error = "mileage_negative"
    /\ tractors # {}

\* C8: the position of every stored tire event belongs to the position set of
\* the event's own vehicle class.
C8_PositionBelongsToOwnClass ==
    \A e \in tire_events :
        /\ e.vehicle_type \in VehicleClasses
        /\ e.position \in ClassPositions(e.vehicle_type)

\* C8 witness: a tractor event and a trailer event are stored and a position
\* edit has just been applied
C8_Witness ==
    /\ last.op = "update_tire_event"
    /\ last.result = "ok"
    /\ \E e \in tire_events : e.vehicle_type = "tractor" /\ e.position = "F8"
    /\ \E e \in tire_events : e.vehicle_type = "trailer"

\* C9: no two tractors and no two trailers share a plate; an update that would
\* give a vehicle the plate of another vehicle of its class fails and leaves the
\* table as it was.
C9_PlatesStayUnique ==
    [][ /\ PlatesUnique(tractors')
        /\ PlatesUnique(trailers')
        /\ \/ last'.op # "update_tractor"
           \/ last'.result # "ok" /\ tractors' = tractors
           \/ ~\E id \in RowIdInputs, plate \in VehiclePlateInputs,
                  mileage \in VehicleMileageInputs, note \in NoteInputs :
                 /\ \E r \in tractors : r.id = id
                 /\ \E o \in tractors : o.id # id /\ o.plate = strip(plate)
                 /\ update_tractor(id, plate, mileage, note)
        /\ \/ last'.op # "update_trailer"
           \/ last'.result # "ok" /\ trailers' = trailers
           \/ ~\E id \in RowIdInputs, plate \in VehiclePlateInputs, note \in NoteInputs :
                 /\ \E r \in trailers : r.id = id
                 /\ \E o \in trailers : o.id # id /\ o.plate = strip(plate)
                 /\ update_trailer(id, plate, note)
      ]_vars

\* C9 witness: two tractors are stored and the UNIQUE constraint has just refused
\* to give one the plate of the other
C9_Witness ==
    /\ last.op = "update_tractor"
    /\ last.result = "IntegrityError"
    /\ Cardinality(tractors) = 2

\* C10: no tractor, tire event or maintenance record has a negative mileage.
C10_MileageNeverNegative ==
    /\ \A r \in tractors : r.mileage >= 0
    /\ \A e \in tire_events : e.mileage >= 0
    /\ \A m \in maintenance_records : m.mileage >= 0

\* C10 witness: a tractor, a tire event and a maintenance record are stored and
\* an update of the record has just been applied
C10_Witness ==
    /\ last.op = "update_maintenance_record"
    /\ last.result = "ok"
    /\ tractors # {}
    /\ tire_events # {}
    /\ \E m \in maintenance_records : m.id \in RowIdInputs

\* the create and update methods of Database
CreateAndUpdateOps ==
    { "create_tractor", "update_tractor", "create_trailer", "update_trailer",
      "create_tire_event", "update_tire_event",
      "create_maintenance_record", "update_maintenance_record" }

\* C11: a create or update call that raises, whatever it raises for (empty plate
\* or record type, negative mileage, malformed date, invalid position, duplicate
\* plate), leaves the rows of all four tables as they were before the call.
C11_FailedWriteChangesNothing ==
    [][ last'.op \in CreateAndUpdateOps /\ last'.result # "ok"
            => UNCHANGED <<tractors, trailers, tire_events, maintenance_records>>
      ]_vars

\* C11 witness: create_tire_event has just refused a malformed date while a
\* tractor and a tire event were stored
C11_Witness ==
    /\ last.op = "create_tire_event"
    /\ last.result = "ValueError"
    /\ last.error = "date_invalid"
    /\ tractors # {}
    /\ tire_events # {}

\* C12: a call of delete_tractor or delete_trailer either returns with the vehicle,
\* its tire events and its maintenance records all removed, or, when one of its
\* three DELETE statements fails, raises with all four tables as they were: the
\* children are never gone with the parent left, nor the parent with children left.
C12_DeleteVehicleAllOrNothing ==
    [][ \A v \in RowIdInputs :
          /\ (delete_tractor(v) \/ \E k \in DeleteStatements : delete_tractor_interrupted(v, k))
                 => \/ /\ last'.result = "ok"
                       /\ VehicleIsGone("tractor", v, tractors', tire_events', maintenance_records')
                    \/ /\ last'.result # "ok"
                       /\ UNCHANGED <<tractors, trailers, tire_events, maintenance_records>>
          /\ (delete_trailer(v) \/ \E k \in DeleteStatements : delete_trailer_interrupted(v, k))
                 => \/ /\ last'.result = "ok"
                       /\ VehicleIsGone("trailer", v, trailers', tire_events', maintenance_records')
                    \/ /\ last'.result # "ok"
                       /\ UNCHANGED <<tractors, trailers, tire_events, maintenance_records>>
      ]_vars

\* C12 witness: delete_tractor has just failed on a tractor that has a tire event
\* and a maintenance record, and all three rows are there
C12_Witness ==
    /\ last.op = "delete_tractor"
    /\ last.result = "OperationalError"
    /\ \E r \in tractors :
           /\ \E e \in tire_events : e.vehicle_type = "tractor" /\ e.vehicle_id = r.id
           /\ \E m \in maintenance_records : m.vehicle_type = "tractor" /\ m.vehicle_id = r.id

\* the dates of DateInputs that _to_iso accepts
AcceptedDateInputs == { d \in DateInputs : ~_to_iso_raises(d) }

\* an update of a tractor, trailer or maintenance record that names no row, with
\* arguments the method accepts, returns and leaves the four tables as they were
UpdateOfMissingVehicleOrRecordIsNoOp ==
    /\ \/ last'.op # "update_tractor"
       \/ last'.result = "ok" /\ UNCHANGED <<tractors, trailers, tire_events, maintenance_records>>
       \/ ~\E id \in RowIdInputs, plate \in PlateInputs, mileage \in MileageInputs,
              note \in NoteInputs :
             /\ \A r \in tractors : r.id # id
             /\ strip(plate) # <<>> /\ mileage >= 0
             /\ update_tractor(id, plate, mileage, note)
    /\ \/ last'.op # "update_trailer"
       \/ last'.result = "ok" /\ UNCHANGED <<tractors, trailers, tire_events, maintenance_records>>
       \/ ~\E id \in RowIdInputs, plate \in PlateInputs, note \in NoteInputs :
             /\ \A r \in trailers : r.id # id
             /\ strip(plate) # <<>>
             /\ update_trailer(id, plate, note)
    /\ \/ last'.op # "update_maintenance_record"
       \/ last'.result = "ok" /\ UNCHANGED <<tractors, trailers, tire_events, maintenance_records>>
       \/ ~\E id \in RowIdInputs, t \in RecordTypeInputs, d \in AcceptedDateInputs,
              mileage \in MileageInputs, note \in NoteInputs :
             /\ \A m \in maintenance_records : m.id # id
             /\ strip(t) # <<>> /\ mileage >= 0
             /\ update_maintenance_record(id, t, d, mileage, note)

\* a step is update_tire_event naming no row, with a position of either class, a
\* date that parses and a mileage that is not negative
UpdateOfMissingTireEvent ==
    \E id \in RowIdInputs, p \in PositionInputs, d \in AcceptedDateInputs,
       mileage \in MileageInputs, text \in NoteInputs :
        /\ \A e \in tire_events : e.id # id
        /\ p \in ClassPositions("tractor") \cup ClassPositions("trailer")
        /\ mileage >= 0
        /\ update_tire_event(id, p, d, mileage, text, text, text)

\* C13 as claimed: every update method, update_tire_event included, called with
\* valid arguments on an id that does not exist returns without raising and
\* leaves the store unchanged.
C13_UpdateOfMissingIdIsNoOp ==
    [][ /\ UpdateOfMissingVehicleOrRecordIsNoOp
        /\ \/ last'.op # "update_tire_event"
           \/ last'.result = "ok" /\ UNCHANGED <<tractors, trailers, tire_events, maintenance_records>>
           \/ ~UpdateOfMissingTireEvent
      ]_vars

\* C13 amended: update_tractor, update_trailer and update_maintenance_record
\* called with valid arguments on an id that does not exist return without
\* raising and leave the store unchanged; update_tire_event on an id that does
\* not exist raises ValueError and leaves the store unchanged.
C13_UpdateOfMissingIdChangesNothing ==
    [][ /\ UpdateOfMissingVehicleOrRecordIsNoOp
        /\ \/ last'.op # "update_tire_event"
           \/ last'.result = "ValueError" /\ UNCHANGED <<tractors, trailers, tire_events, maintenance_records>>
           \/ ~UpdateOfMissingTireEvent
      ]_vars

\* C13 witness: update_tire_event has just found no row for its id while another
\* tire event and a trailer were stored
C13_Witness ==
    /\ last.op = "update_tire_event"
    /\ last.error = "record_missing"
    /\ tire_events # {}
    /\ trailers # {}

\* C14: delete_tractor, delete_trailer, delete_tire_event and
\* delete_maintenance_record called on an id that is not in their table return
\* without raising and leave all four tables unchanged.
C14_DeleteOfMissingIdIsNoOp ==
    [][ \A id \in RowIdInputs :
          /\ (\A r \in tractors : r.id # id) /\ delete_tractor(id)
                 => /\ last'.result = "ok"
                    /\ UNCHANGED <<tractors, trailers, tire_events, maintenance_records>>
          /\ (\A r \in trailers : r.id # id) /\ delete_trailer(id)
                 => /\ last'.result = "ok"
                    /\ UNCHANGED <<tractors, trailers, tire_events, maintenance_records>>
          /\ (\A e \in tire_events : e.id # id) /\ delete_tire_event(id)
                 => /\ last'.result = "ok"
                    /\ UNCHANGED <<tractors, trailers, tire_events, maintenance_records>>
          /\ (\A m \in maintenance_records : m.id # id) /\ delete_maintenance_record(id)
                 => /\ last'.result = "ok"
                    /\ UNCHANGED <<tractors, trailers, tire_events, maintenance_records>>
      ]_vars

\* what an update may not touch: id, vehicle class and vehicle id of each event
EventIdentities(events) ==
    { [id |-> e.id, vehicle_type |-> e.vehicle_type, vehicle_id |-> e.vehicle_id] :
        e \in events }

\* C15: update_tire_event with a position outside the position set of the class
\* recorded on the event raises ValueError and leaves the event as it was; and no
\* update_tire_event step, successful or not, changes the id, vehicle class or
\* vehicle id of any event.
C15_UpdateKeepsEventIdentity ==
    [][ last'.op = "update_tire_event" =>
          /\ EventIdentities(tire_events') = EventIdentities(tire_events)
          /\ Cardinality(tire_events') = Cardinality(tire_events)
          /\ \/ last'.result = "ValueError" /\ tire_events' = tire_events
             \/ ~\E id \in RowIdInputs, p \in TirePositionInputs, d \in TireDateInputs,
                    m \in MileageInputs, text \in NoteInputs :
                   /\ \E e \in tire_events :
                          e.id = id /\ p \notin ClassPositions(e.vehicle_type)
                   /\ update_tire_event(id, p, d, m, text, text, text)
      ]_vars

\* C15 witness: a tractor event and a trailer event are stored and
\* update_tire_event has just refused a position
C15_Witness ==
    /\ last.op = "update_tire_event"
    /\ last.result = "ValueError"
    /\ last.error = "position_invalid"
    /\ \E e \in tire_events : e.vehicle_type = "tractor"
    /\ \E e \in tire_events : e.vehicle_type = "trailer"

\* a calendar date written as YYYY-MM-DD
IsYYYY_MM_DD(s) ==
    /\ Len(s) = 10
    /\ s[5] = "-" /\ s[8] = "-"
    /\ \A i \in {1, 2, 3, 4, 6, 7, 9, 10} : s[i] \in {"0", "1", "2", "3", "4", "5", "6", "7", "8", "9"}
    /\ is_calendar_date(int(SubSeq(s, 1, 4)), int(SubSeq(s, 6, 7)), int(SubSeq(s, 9, 10)))

\* C16: a date string that is not a calendar date written as YYYY-MM-DD is
\* rejected by the create and update methods of tire events and maintenance
\* records, so every stored change_date and service_date is a calendar date
\* written as YYYY-MM-DD.
C16_StoredDatesAreYYYY_MM_DD ==
    /\ \A e \in tire_events : IsYYYY_MM_DD(e.change_date)
    /\ \A m \in maintenance_records : IsYYYY_MM_DD(m.service_date)

\* C17: list_tire_events (with and without a position) and
\* list_maintenance_records return the rows they select newest date first and,
\* on equal dates, greatest id first, dates compared as the stored text;
\* list_tractors and list_trailers return all rows in ascending plate order.
C17_ListsAreSorted ==
    /\ \A c \in VehicleClasses, v \in AskedVehicleIds :
           \A p \in { NoPosition } \cup { <<q>> : q \in ClassPositions(c) } :
               LET list == list_tire_events(c, v, p)
               IN  \A i \in 1..(Len(list) - 1) :
                       \/ TextLess(list[i + 1].change_date, list[i].change_date)
                       \/ /\ list[i].change_date = list[i + 1].change_date
                          /\ list[i].id > list[i + 1].id
    /\ \A c \in VehicleClasses, v \in AskedVehicleIds :
           LET list == list_maintenance_records(c, v)
           IN  \A i \in 1..(Len(list) - 1) :
                   \/ TextLess(list[i + 1].service_date, list[i].service_date)
                   \/ /\ list[i].service_date = list[i + 1].service_date
                      /\ list[i].id > list[i + 1].id
    /\ Len(list_tractors) = Cardinality(tractors)
    /\ \A i \in 1..(Len(list_tractors) - 1) :
           ~TextLess(list_tractors[i + 1].plate, list_tractors[i].plate)
    /\ Len(list_trailers) = Cardinality(trailers)
    /\ \A i \in 1..(Len(list_trailers) - 1) :
           ~TextLess(list_trailers[i + 1].plate, list_trailers[i].plate)

\* C17 witness: of two tire events of tractor 1 the one inserted first has the
\* later date and heads the list; a tractor is listed
C17_Witness ==
    /\ Len(list_tire_events("tractor", 1, NoPosition)) = 2
    /\ list_tire_events("tractor", 1, NoPosition)[1].id = 1
    /\ list_tire_events("tractor", 1, NoPosition)[1].change_date = D_2025_01_02
    /\ list_tire_events("tractor", 1, NoPosition)[2].change_date = D_2025_01_01
    /\ Len(list_tractors) = 1
    /\ list_maintenance_records("tractor", 1) = <<>>

\* C18: list_tire_events(class, id) returns, each once, exactly the stored events
\* of that class and vehicle id, so none of another vehicle and none of the
\* other class's vehicle with the same id; with a position, exactly those of them
\* at that position.
C18_ListHasExactlyTheVehiclesEvents ==
    \A c \in VehicleClasses, v \in AskedVehicleIds :
        LET of_vehicle == { e \in tire_events : e.vehicle_type = c /\ e.vehicle_id = v }
            list == list_tire_events(c, v, NoPosition)
        IN  /\ Range(list) = of_vehicle
            /\ Len(list) = Cardinality(of_vehicle)
            /\ \A q \in ClassPositions(c) :
                   LET at == list_tire_events(c, v, <<q>>)
                   IN  /\ Range(at) = { e \in of_vehicle : e.position = q }
                       /\ Len(at) = Cardinality(Range(at))

\* C18 witness: tractor 1 and trailer 1 each have one event and each list has
\* its own
C18_Witness ==
    /\ \E e \in tire_events : e.vehicle_type = "trailer" /\ e.vehicle_id = 1
    /\ Len(list_tire_events("tractor", 1, NoPosition)) = 1
    /\ list_tire_events("tractor", 1, NoPosition)[1].vehicle_type = "tractor"
    /\ Len(list_tire_events("tractor", 1, <<"F8">>)) = 1
    /\ list_tire_events("tractor", 1, <<"F1">>) = <<>>

\* neither empty nor with a blank at either end
IsTrimmedAndNotEmpty(plate) ==
    /\ plate # <<>>
    /\ plate[1] # " "
    /\ plate[Len(plate)] # " "

\* C19: every stored tractor and trailer plate is non-empty and has no blank at
\* either end, after every step; and a create or update of a vehicle given a plate
\* that is empty once trimmed raises ValueError and writes nothing.
C19_PlatesAreTrimmed ==
    [][ /\ \A r \in tractors' : IsTrimmedAndNotEmpty(r.plate)
        /\ \A r \in trailers' : IsTrimmedAndNotEmpty(r.plate)
        /\ \/ last'.op \notin { "create_tractor", "update_tractor",
                                 "create_trailer", "update_trailer" }
           \/ /\ last'.result = "ValueError"
              /\ UNCHANGED <<tractors, trailers, tire_events, maintenance_records>>
           \/ ~\E plate \in { q \in VehiclePlateInputs : \A i \in DOMAIN q : q[i] = " " },
                  note \in NoteInputs :
                 \/ \E mileage \in VehicleMileageInputs : create_tractor(plate, mileage, note)
                 \/ \E id \in RowIdInputs, mileage \in VehicleMileageInputs :
                        update_tractor(id, plate, mileage, note)
                 \/ create_trailer(plate, note)
                 \/ \E id \in RowIdInputs : update_trailer(id, plate, note)
      ]_vars

\* C19 witness: update_trailer has just refused an empty plate while a trailer
\* and a tractor were stored
C19_Witness ==
    /\ last.op = "update_trailer"
    /\ last.result = "ValueError"
    /\ last.error = "plate_empty"
    /\ trailers # {}
    /\ tractors # {}

\* the rows of `before` other than row `id` are in `after` as they were, and row
\* `id`, when there is one, is in `after` with its created_at
OnlyRowChanged(id, before, after) ==
    /\ Cardinality(after) = Cardinality(before)
    /\ \A r \in before : r.id # id => r \in after
    /\ \A r \in before :
           r.id = id => \E r2 \in after : r2.id = id /\ r2.created_at = r.created_at

\* C20: a step of update_tractor(id, ...) or update_trailer(id, ...) leaves the
\* other table of vehicles, tire_events and maintenance_records unchanged, leaves
\* every row but row id of its own table unchanged, and leaves row id with its id
\* and created_at.
C20_UpdateVehicleChangesOneRow ==
    [][ \A id \in RowIdInputs :
          /\ ( /\ last'.op = "update_tractor"
               /\ \E plate \in PlateInputs, mileage \in MileageInputs, note \in NoteInputs :
                      update_tractor(id, plate, mileage, note) )
                 => /\ UNCHANGED <<trailers, tire_events, maintenance_records>>
                    /\ OnlyRowChanged(id, tractors, tractors')
          /\ ( /\ last'.op = "update_trailer"
               /\ \E plate \in PlateInputs, note \in NoteInputs :
                      update_trailer(id, plate, note) )
                 => /\ UNCHANGED <<tractors, tire_events, maintenance_records>>
                    /\ OnlyRowChanged(id, trailers, trailers')
      ]_vars

\* C20 witness: update_tractor has just been applied while two tractors and a
\* tire event were stored; the second tractor has plate A
C20_Witness ==
    /\ last.op = "update_tractor"
    /\ last.result = "ok"
    /\ \E r1, r2 \in tractors :
           r1.id = 1 /\ r2.id = 2 /\ r2.plate = <<"A">> /\ r1.created_at # r2.created_at
    /\ tire_events # {}

\* the errors of the constraints the schema store names: a plate that is taken,
\* a position outside the class's set, a negative mileage
ConstraintViolations == { "plate_unique", "position_invalid", "mileage_negative" }

\* the error of a statement SQLite could not carry out (disk, file)
StorageFailures == { "statement_failed" }

HeaderOf(name) ==
    CASE name = "tractors.csv" -> <<"id", "plate", "mileage", "note", "created_at">>
      [] name = "trailers.csv" -> <<"id", "plate", "note", "created_at">>
      [] name = "tire_events.csv" ->
             <<"id", "vehicle_type", "vehicle_id", "vehicle_plate", "position", "change_date",
               "mileage", "brand", "model", "note", "created_at">>
      [] name = "maintenance_records.csv" ->
             <<"id", "vehicle_type", "vehicle_id", "vehicle_plate", "record_type",
               "service_date", "mileage", "note", "created_at">>

\* C22: a step of export_csv, whatever the store holds and whether or not the
\* directory was there, returns the four paths tractors.csv, trailers.csv,
\* tire_events.csv, maintenance_records.csv; each is then a file of the directory
\* with at least one row, the first being its header; the store is unchanged.
C22_ExportWritesFourFilesWithHeaders ==
    [][ last'.op = "export_csv"
          => /\ last'.result = "ok"
             /\ Len(last'.ret) = 4
             /\ last'.ret[1] = "tractors.csv"
             /\ last'.ret[2] = "trailers.csv"
             /\ last'.ret[3] = "tire_events.csv"
             /\ last'.ret[4] = "maintenance_records.csv"
             /\ output_dir' # None
             /\ \A i \in 1..4 :
                    LET name == last'.ret[i]
                    IN  /\ name \in DOMAIN output_dir'.files
                        /\ Len(output_dir'.files[name]) >= 1
                        /\ output_dir'.files[name][1] = HeaderOf(name)
             /\ UNCHANGED tables
      ]_vars

\* C22 witness: export_csv has just written into a directory while the store held
\* a tractor with a tire event; the file of tire events has a header and a row
C22_Witness ==
    /\ last.op = "export_csv"
    /\ last.result = "ok"
    /\ tractors # {}
    /\ trailers = {}
    /\ Len(output_dir.files["tire_events.csv"]) = 2
    /\ Len(output_dir.files["trailers.csv"]) = 1

\* the class label of the export
LabelOf(vehicle_class) == IF vehicle_class = "tractor" THEN "qianyinche" ELSE "guache"

\* the vehicles that own a child row: those of its class with its vehicle_id
OwnersOf(child) ==
    { v \in (IF child.vehicle_type = "tractor" THEN tractors ELSE trailers) :
        v.id = child.vehicle_id }

\* the data rows of an exported file that start with `id`
RowsOf(name, id) ==
    { i \in 2..Len(output_dir.files[name]) : output_dir.files[name][i][1] = id }

\* C23: right after export_csv, tire_events.csv has exactly one data row per tire
\* event of the store and maintenance_records.csv exactly one per maintenance
\* record, the row carrying the class label and the plate of the owning vehicle;
\* tractors.csv and trailers.csv have one data row per vehicle.
C23_ExportHasOneRowPerStoredRow ==
    (last.op = "export_csv" /\ last.result = "ok")
        => /\ Len(output_dir.files["tire_events.csv"]) = 1 + Cardinality(tire_events)
           /\ \A e \in tire_events :
                  /\ Cardinality(RowsOf("tire_events.csv", e.id)) = 1
                  /\ \A i \in RowsOf("tire_events.csv", e.id) :
                         LET row == output_dir.files["tire_events.csv"][i]
                         IN  /\ row[2] = LabelOf(e.vehicle_type)
                             /\ \E v \in OwnersOf(e) : row[4] = v.plate
           /\ Len(output_dir.files["maintenance_records.csv"])
                  = 1 + Cardinality(maintenance_records)
           /\ \A m \in maintenance_records :
                  /\ Cardinality(RowsOf("maintenance_records.csv", m.id)) = 1
                  /\ \A i \in RowsOf("maintenance_records.csv", m.id) :
                         LET row == output_dir.files["maintenance_records.csv"][i]
                         IN  /\ row[2] = LabelOf(m.vehicle_type)
                             /\ \E v \in OwnersOf(m) : row[4] = v.plate
           /\ Len(output_dir.files["tractors.csv"]) = 1 + Cardinality(tractors)
           /\ \A v \in tractors : Cardinality(RowsOf("tractors.csv", v.id)) = 1
           /\ Len(output_dir.files["trailers.csv"]) = 1 + Cardinality(trailers)
           /\ \A v \in trailers : Cardinality(RowsOf("trailers.csv", v.id)) = 1

\* C24: a step of init_db on the initialized store, after any calls, returns
\* without raising and leaves the rows of all four tables as they were.
C24_InitDbIsIdempotent ==
    [][ last'.op = "init_db"
          => /\ last'.result = "ok"
             /\ UNCHANGED <<tractors, trailers, tire_events, maintenance_records>>
      ]_vars

\* C24 witness: init_db has just run again while a tractor, a tire event and a
\* maintenance record were stored
C24_Witness ==
    /\ last.op = "init_db"
    /\ tractors # {}
    /\ tire_events # {}
    /\ maintenance_records # {}

\* C25: a step that constructs a TireVisualizer with the position tuple of a
\* class keeps the tuple as tire_positions and leaves an item in _item_map for
\* every position of the tuple; a step of select(p) leaves selected_pos at p, and
\* a step of select(None) leaves it at None.
C25_VisualizerDrawsEveryPosition ==
    [][ /\ \A tire_positions \in { TRACTOR_TIRE_POSITIONS, TRAILER_TIRE_POSITIONS },
              vehicle_label \in VisualizerLabelInputs :
               TireVisualizer(tire_positions, vehicle_label)
                   => /\ last'.result = "ok"
                      /\ visualizer'.tire_positions = tire_positions
                      /\ \A i \in DOMAIN tire_positions :
                             tire_positions[i] \in DOMAIN visualizer'._item_map
        /\ \A pos \in VisualizerSelectInputs :
               select(pos) => visualizer'.selected_pos = pos
      ]_vars

\* C26: every tire event and every maintenance record is of a vehicle that is
\* stored in the table of its class.
C26_EveryChildHasItsParent ==
    /\ \A e \in tire_events : OwnersOf(e) # {}
    /\ \A m \in maintenance_records : OwnersOf(m) # {}

\* C27: right after create_tractor or create_trailer has returned the id v, the
\* list of tire events and the list of maintenance records of (class, v) are
\* empty and current_tires(class, v) has None at every position.
C27_NewVehicleHasNoHistory ==
    \A class \in VehicleClasses :
        ( /\ last.op = (IF class = "tractor" THEN "create_tractor" ELSE "create_trailer")
          /\ last.result = "ok" )
            => /\ list_tire_events(class, last.ret, NoPosition) = <<>>
               /\ list_maintenance_records(class, last.ret) = <<>>
               /\ \A p \in ClassPositions(class) : current_tires(class, last.ret)[p] = None

\* the child rows that are not of the vehicle k of a class
NotOf(children, vehicle_class, k) ==
    { c \in children : ~(c.vehicle_type = vehicle_class /\ c.vehicle_id = k) }

\* C28: a step of delete_tractor(k) leaves every trailer, every tractor but k,
\* and every tire event and maintenance record that is not of (tractor, k) as
\* they were, those of the trailer k included; a step of delete_trailer(k) does
\* the same with the classes exchanged.
C28_DeleteVehicleTouchesNothingElse ==
    [][ \A k \in RowIdInputs :
          /\ (last'.op = "delete_tractor" /\ delete_tractor(k))
                 => /\ trailers' = trailers
                    /\ { r \in tractors' : r.id # k } = { r \in tractors : r.id # k }
                    /\ NotOf(tire_events', "tractor", k) = NotOf(tire_events, "tractor", k)
                    /\ NotOf(maintenance_records', "tractor", k)
                           = NotOf(maintenance_records, "tractor", k)
          /\ (last'.op = "delete_trailer" /\ delete_trailer(k))
                 => /\ tractors' = tractors
                    /\ { r \in trailers' : r.id # k } = { r \in trailers : r.id # k }
                    /\ NotOf(tire_events', "trailer", k) = NotOf(tire_events, "trailer", k)
                    /\ NotOf(maintenance_records', "trailer", k)
                           = NotOf(maintenance_records, "trailer", k)
      ]_vars

\* C28 witness: delete_tractor has just removed tractor 1 while trailer 1 and a
\* tire event of trailer 1 were stored; both are still there
C28_Witness ==
    /\ last.op = "delete_tractor"
    /\ sqlite_sequence["tractors"] = 1
    /\ tractors = {}
    /\ \E r \in trailers : r.id = 1
    /\ \E e \in tire_events : e.vehicle_type = "trailer" /\ e.vehicle_id = 1

\* C29: for every class, vehicle id and position p of the class,
\* current_tires(class, id)[p] is the first element of
\* list_tire_events(class, id, p) when that list has one and None when it is
\* empty; so once the current event of p is deleted or moved, the next of the
\* list is the current one.
C29_CurrentIsHeadOfThePositionsList ==
    \A c \in VehicleClasses, v \in AskedVehicleIds :
        \A p \in ClassPositions(c) :
            LET listed == list_tire_events(c, v, <<p>>)
            IN  /\ ~list_tire_events_raises(c, <<p>>)
                /\ IF listed = <<>> THEN current_tires(c, v)[p] = None
                   ELSE current_tires(c, v)[p] = listed[1]

\* C29 witness: of the two tire events inserted, the second was deleted or moved
\* away last and the first, older by its id, is the current tire of its position
C29_Witness ==
    /\ last.op \in { "delete_tire_event", "update_tire_event" }
    /\ last.result = "ok"
    /\ sqlite_sequence["tire_events"] = 2
    /\ \E e \in tire_events :
           /\ e.id = 1
           /\ current_tires(e.vehicle_type, e.vehicle_id)[e.position] = e
           /\ \A o \in tire_events : o.id # 1 => o.position # e.position

\* the table each create method inserts into
CreatedTable ==
    [create_tractor |-> "tractors", create_trailer |-> "trailers",
     create_tire_event |-> "tire_events", create_maintenance_record |-> "maintenance_records"]

\* C30: in each table, the id a create method returns is greater than every id
\* issued before in that table, stored or deleted since: it is greater than every
\* stored id and than the largest id issued so far, which no step lowers and
\* which the returned id then is.
C30_IdsOnlyGrow ==
    [][ /\ \A t \in TableNames : sqlite_sequence'[t] >= sqlite_sequence[t]
        /\ \A t \in TableNames : \A r \in rows_of(t)' : r.id <= sqlite_sequence'[t]
        /\ \A t \in TableNames :
               ( /\ last'.op \in DOMAIN CreatedTable
                 /\ last'.result = "ok"
                 /\ CreatedTable[last'.op] = t )
                   => /\ last'.ret > sqlite_sequence[t]
                      /\ \A r \in rows_of(t) : last'.ret > r.id
                      /\ sqlite_sequence'[t] = last'.ret
                      /\ \E r \in rows_of(t)' : r.id = last'.ret
      ]_vars

\* C30 witness: create_tractor has just returned 2 although tractor 1 has been
\* deleted and the table was empty
C30_Witness ==
    /\ last.op = "create_tractor"
    /\ last.result = "ok"
    /\ last.ret = 2
    /\ \A r \in tractors : r.id = 2

====
